---------------------------- MODULE Spec2Model ----------------------------
(***************************************************************************)
(* Verification and confidence-scoring engine of canvas-copilot            *)
(* (src/verification_system.py, src/faq_generator.py).                     *)
(*                                                                         *)
(* Conventions of the model:                                               *)
(*  - a Python text is a sequence of one-character strings, so that len,   *)
(*    `in`, lower() and equality are computed as Python computes them;     *)
(*  - a Python dict is a function whose DOMAIN is the set of keys present; *)
(*  - a confidence factor is an integer number of hundredths (0.85 is 85); *)
(*  - a confidence is the exact rational num / (100 * den); the floats of  *)
(*    the code agree with it on every comparison made here (no comparison  *)
(*    of the structural evaluators is ever within rounding distance of its *)
(*    threshold, and a float sum of n factors <= 1.0 is <= n);             *)
(*  - messages (issues, warnings) are plain strings;                       *)
(*  - the creation timestamp of a result is left out.                      *)
(***************************************************************************)
EXTENDS Integers, Sequences, FiniteSets, TLC

(***************************************************************************)
(* Python primitives                                                       *)
(***************************************************************************)

\* c repeated n times: the text c * n
Rep(c, n) == [i \in 1..n |-> c]

UpperChars == <<"A", "B", "C", "D", "E", "F", "G", "H", "I", "J", "K", "L", "M", "N", "O", "P", "Q", "R", "S", "T", "U", "V", "W", "X", "Y", "Z">>

LowerChars == <<"a", "b", "c", "d", "e", "f", "g", "h", "i", "j", "k", "l", "m", "n", "o", "p", "q", "r", "s", "t", "u", "v", "w", "x", "y", "z">>

\* str.lower() of one character
LowerChar(c) ==
    IF \E i \in DOMAIN UpperChars : UpperChars[i] = c
    THEN LowerChars[CHOOSE i \in DOMAIN UpperChars : UpperChars[i] = c]
    ELSE c

\* str.lower()
Lower(s) == [i \in DOMAIN s |-> LowerChar(s[i])]

\* sub in s, for texts
Contains(s, sub) ==
    \E k \in 0..(Len(s) - Len(sub)) :
        \A j \in 1..Len(sub) : s[k + j] = sub[j]

\* c in s, for one character c
HasChar(s, c) == \E i \in DOMAIN s : s[i] = c

\* d.get(k, default)
Get(d, k, default) == IF k \in DOMAIN d THEN d[k] ELSE default

RECURSIVE SumSeq(_)
\* sum(xs)
SumSeq(xs) == IF xs = <<>> THEN 0 ELSE xs[1] + SumSeq(Tail(xs))

\* [len(x) for x in xs]
Lengths(xs) == [i \in DOMAIN xs |-> Len(xs[i])]

\* min(xs), max(xs) of a non-empty list of numbers (min([]) raises ValueError)
PyMin(xs) == CHOOSE m \in {xs[i] : i \in DOMAIN xs} : \A j \in DOMAIN xs : m <= xs[j]

PyMax(xs) == CHOOSE m \in {xs[i] : i \in DOMAIN xs} : \A j \in DOMAIN xs : m >= xs[j]

\* set(xs)
PySet(xs) == {xs[i] : i \in DOMAIN xs}

(***************************************************************************)
(* Confidence values                                                       *)
(***************************************************************************)

\* the float x / 100
Conf(x) == [num |-> x, den |-> 1]

\* sum(confidence_factors) / len(confidence_factors) if confidence_factors else 0.0
MeanConfidence(confidence_factors) ==
    IF confidence_factors # <<>>
    THEN [num |-> SumSeq(confidence_factors), den |-> Len(confidence_factors)]
    ELSE Conf(0)

\* c < t / 100
ConfLt(c, t) == c.num < t * c.den

\* c <= t / 100, c >= t / 100, c = t / 100
ConfLe(c, t) == c.num <= t * c.den

ConfGe(c, t) == c.num >= t * c.den

ConfIs(c, t) == c.num = t * c.den

(***************************************************************************)
(* VerificationResult, and the outcome of a call                           *)
(***************************************************************************)

VerificationResult(content_type, content, confidence, issues, warnings, needs_review) ==
    [content_type |-> content_type,
     content      |-> content,
     confidence   |-> confidence,
     issues       |-> issues,
     warnings     |-> warnings,
     needs_review |-> needs_review]

\* a call that returns v, a call that raises exception e
Returned(v) == [status |-> "returned", value |-> v]

Raised(e) == [status |-> "raised", exc |-> e]

\* the three lists a structural evaluator accumulates; exc names the exception
\* that ended the evaluation ("" while none has), after which nothing is appended
NoFindings == [issues |-> <<>>, warnings |-> <<>>, confidence_factors |-> <<>>, exc |-> ""]

AddIssue(acc, msg, factor) ==
    IF acc.exc # "" THEN acc
    ELSE [acc EXCEPT !.issues = Append(@, msg),
                     !.confidence_factors = Append(@, factor)]

AddWarning(acc, msg, factor) ==
    IF acc.exc # "" THEN acc
    ELSE [acc EXCEPT !.warnings = Append(@, msg),
                     !.confidence_factors = Append(@, factor)]

AddFactor(acc, factor) ==
    IF acc.exc # "" THEN acc
    ELSE [acc EXCEPT !.confidence_factors = Append(@, factor)]

\* an uncaught exception e leaves the evaluator
Throw(acc, e) == IF acc.exc # "" THEN acc ELSE [acc EXCEPT !.exc = e]

(***************************************************************************)
(* verify_quiz_question                                                    *)
(***************************************************************************)

QuizReviewThreshold == 75

\* Check 1: question text quality
QuizCheckQuestionText(acc, question_text) ==
    IF Len(question_text) < 10
    THEN AddIssue(acc, "Question text too short (< 10 characters)", 0)
    ELSE IF Len(question_text) > 300
         THEN AddWarning(acc, "Question text very long (> 300 characters)", 80)
         ELSE AddFactor(acc, 100)

\* a question-mark check that lowers the confidence without a warning
QuizCheckQuestionMark_Silent(acc, question_text) ==
    IF ~HasChar(question_text, "?")
    THEN AddFactor(acc, 90)
    ELSE AddFactor(acc, 100)

\* Check 2: has question mark
QuizCheckQuestionMark(acc, question_text) ==
    IF ~HasChar(question_text, "?")
    THEN AddWarning(acc, "Question doesn't contain a question mark", 90)
    ELSE AddFactor(acc, 100)

\* Check 3: options validation
QuizCheckOptionCount(acc, options) ==
    IF Len(options) # 4
    THEN AddIssue(acc, "Expected 4 options, got " \o ToString(Len(options)), 0)
    ELSE AddFactor(acc, 100)

\* the option-length check flagging only empty options
QuizCheckOptionLength_EmptyOnly(acc, options) ==
    IF options = <<>>
    THEN Throw(acc, "ValueError")
    ELSE
    IF PyMin(Lengths(options)) < 1
    THEN AddIssue(acc, "One or more options are too short", 30)
    ELSE IF PyMax(Lengths(options)) > 200
         THEN AddWarning(acc, "One or more options are very long", 80)
         ELSE AddFactor(acc, 100)

\* Check 4, first half: option length; min() and max() of an empty list raise
\* ValueError, which the `if options:` of the caller excludes
QuizCheckOptionLength(acc, options) ==
    IF options = <<>>
    THEN Throw(acc, "ValueError")
    ELSE
    IF PyMin(Lengths(options)) < 2
    THEN AddIssue(acc, "One or more options are too short", 30)
    ELSE IF PyMax(Lengths(options)) > 200
         THEN AddWarning(acc, "One or more options are very long", 80)
         ELSE AddFactor(acc, 100)

\* the duplicate check made only on a list of four options
QuizCheckDuplicates_OnlyFour(acc, options) ==
    IF Len(options) = 4 /\ Len(options) # Cardinality(PySet(options))
    THEN AddIssue(acc, "Duplicate options detected", 0)
    ELSE AddFactor(acc, 100)

\* Check 4, second half: duplicate options
QuizCheckDuplicates(acc, options) ==
    IF Len(options) # Cardinality(PySet(options))
    THEN AddIssue(acc, "Duplicate options detected", 0)
    ELSE AddFactor(acc, 100)

\* Check 4 without its `if options:`
QuizCheckOptions_NoGuard(acc, options) ==
    QuizCheckDuplicates(QuizCheckOptionLength(acc, options), options)

\* the option checks with an else branch that scores an empty list 1.0 twice
QuizCheckOptions_AlwaysScored(acc, options) ==
    IF options # <<>>
    THEN QuizCheckDuplicates(QuizCheckOptionLength(acc, options), options)
    ELSE AddFactor(AddFactor(acc, 100), 100)

\* Check 4: `if options:` guards both halves
QuizCheckOptions(acc, options) ==
    IF options # <<>>
    THEN QuizCheckDuplicates(QuizCheckOptionLength(acc, options), options)
    ELSE acc

\* str(question.get('correct_index')): the key's value, or None
CorrectIndexText(question) ==
    IF "correct_index" \in DOMAIN question
    THEN ToString(question.correct_index)
    ELSE "None"

\* Check 5: correct answer index
QuizCheckCorrectIndex(acc, question) ==
    IF ~("correct_index" \in DOMAIN question /\ question.correct_index \in {0, 1, 2, 3})
    THEN AddIssue(acc, "Invalid correct_index: " \o CorrectIndexText(question), 0)
    ELSE AddFactor(acc, 100)

\* length > avg_length * 2 for some option, avg_length = sum(lengths) / len(lengths)
HasOutlierLength(options) ==
    \E i \in DOMAIN options :
        Len(options[i]) * Len(options) > 2 * SumSeq(Lengths(options))

\* the outlier check run on every non-empty list of options
QuizCheckPlausibility_AnyCount(acc, options) ==
    IF options # <<>>
    THEN IF HasOutlierLength(options)
         THEN AddWarning(acc, "One option much longer than others (may be obviously correct)", 85)
         ELSE AddFactor(acc, 100)
    ELSE acc

\* Check 6: answer plausibility (runs only under `if options and len(options) == 4:`)
QuizCheckPlausibility(acc, options) ==
    IF options # <<>> /\ Len(options) = 4
    THEN IF HasOutlierLength(options)
         THEN AddWarning(acc, "One option much longer than others (may be obviously correct)", 85)
         ELSE AddFactor(acc, 100)
    ELSE acc

\* the checks preceded by a return on a record that lacks a key
QuizFindings_ShortCircuit(question) ==
    IF {"question", "options", "correct_index"} \ DOMAIN question # {}
    THEN AddIssue(NoFindings, "Missing required key", 0)
    ELSE LET c1 == QuizCheckQuestionText(NoFindings, question.question)
             c2 == QuizCheckQuestionMark(c1, question.question)
             c3 == QuizCheckOptionCount(c2, question.options)
             c4 == QuizCheckOptions(c3, question.options)
             c5 == QuizCheckCorrectIndex(c4, question)
         IN  QuizCheckPlausibility(c5, question.options)

QuizFindings(question) ==
    LET question_text == Get(question, "question", <<>>)
        options == Get(question, "options", <<>>)
        c1 == QuizCheckQuestionText(NoFindings, question_text)
        c2 == QuizCheckQuestionMark(c1, question_text)
        c3 == QuizCheckOptionCount(c2, options)
        c4 == QuizCheckOptions(c3, options)
        c5 == QuizCheckCorrectIndex(c4, question)
    IN  QuizCheckPlausibility(c5, options)

\* needs_review = bool(issues) or confidence < 0.75
QuizNeedsReview(issues, confidence) ==
    issues # <<>> \/ ConfLt(confidence, QuizReviewThreshold)

verify_quiz_question(question) ==
    LET acc == QuizFindings(question)
        confidence == MeanConfidence(acc.confidence_factors)
    IN  IF acc.exc # ""
        THEN Raised(acc.exc)
        ELSE Returned(VerificationResult("quiz_question", question, confidence,
                                         acc.issues, acc.warnings,
                                         QuizNeedsReview(acc.issues, confidence)))

(***************************************************************************)
(* verify_faq_entry                                                        *)
(***************************************************************************)

FaqReviewThreshold == 75

General == <<"G", "e", "n", "e", "r", "a", "l">>

\* placeholder_terms = ['TODO', 'TBD', 'FIXME', '[insert', 'coming soon']
placeholder_terms ==
    << <<"T", "O", "D", "O">>,
       <<"T", "B", "D">>,
       <<"F", "I", "X", "M", "E">>,
       <<"[", "i", "n", "s", "e", "r", "t">>,
       <<"c", "o", "m", "i", "n", "g", " ", "s", "o", "o", "n">> >>

\* Check question
FaqCheckQuestion(acc, question) ==
    IF Len(question) < 5
    THEN AddIssue(acc, "Question too short", 0)
    ELSE IF ~HasChar(question, "?")
         THEN AddWarning(acc, "Question doesn't end with ?", 90)
         ELSE AddFactor(acc, 100)

\* Check answer
FaqCheckAnswer(acc, answer) ==
    IF Len(answer) < 10
    THEN AddIssue(acc, "Answer too short", 0)
    ELSE IF Len(answer) > 1000
         THEN AddWarning(acc, "Answer very long (> 1000 chars)", 85)
         ELSE AddFactor(acc, 100)

\* Check category: `not category or category == 'General'`
FaqCheckCategory(acc, category) ==
    IF category = <<>> \/ category = General
    THEN AddWarning(acc, "Generic or missing category", 80)
    ELSE AddFactor(acc, 100)

\* the placeholder search without lower()
HasPlaceholder_CaseSensitive(answer) ==
    \E t \in DOMAIN placeholder_terms : Contains(answer, placeholder_terms[t])

\* any(term.lower() in answer.lower() for term in placeholder_terms)
HasPlaceholder(answer) ==
    \E t \in DOMAIN placeholder_terms :
        Contains(Lower(answer), Lower(placeholder_terms[t]))

\* Check for placeholder text
FaqCheckPlaceholder(acc, answer) ==
    IF HasPlaceholder(answer)
    THEN AddIssue(acc, "Answer contains placeholder text", 0)
    ELSE AddFactor(acc, 100)

FaqFindings(faq) ==
    LET question == Get(faq, "question", <<>>)
        answer == Get(faq, "answer", <<>>)
        category == Get(faq, "category", <<>>)
        c1 == FaqCheckQuestion(NoFindings, question)
        c2 == FaqCheckAnswer(c1, answer)
        c3 == FaqCheckCategory(c2, category)
    IN  FaqCheckPlaceholder(c3, answer)

\* needs_review = bool(issues) or confidence < 0.75
FaqNeedsReview(issues, confidence) ==
    issues # <<>> \/ ConfLt(confidence, FaqReviewThreshold)

verify_faq_entry(faq) ==
    LET acc == FaqFindings(faq)
        confidence == MeanConfidence(acc.confidence_factors)
    IN  IF acc.exc # ""
        THEN Raised(acc.exc)
        ELSE Returned(VerificationResult("faq_entry", faq, confidence,
                                         acc.issues, acc.warnings,
                                         FaqNeedsReview(acc.issues, confidence)))

(***************************************************************************)
(* verify_rubric                                                           *)
(***************************************************************************)

RubricReviewThreshold == 80

\* Check number of criteria
RubricCheckCount(acc, criteria) ==
    IF Len(criteria) < 3
    THEN AddWarning(acc, "Only " \o ToString(Len(criteria)) \o " criteria (recommend 4+)", 80)
    ELSE IF Len(criteria) > 10
         THEN AddWarning(acc, ToString(Len(criteria)) \o " criteria may be too many", 90)
         ELSE AddFactor(acc, 100)

\* sum(c.get('points', 0) for c in criteria)
CriteriaPoints(criteria) ==
    SumSeq([i \in DOMAIN criteria |-> Get(criteria[i], "points", 0)])

\* the point check filing the mismatch as a warning
RubricCheckPointSum_Warning(acc, criteria, stated_total) ==
    IF CriteriaPoints(criteria) # stated_total
    THEN AddWarning(acc, "Point mismatch: criteria sum to " \o ToString(CriteriaPoints(criteria))
                         \o " but total_points is " \o ToString(stated_total), 50)
    ELSE AddFactor(acc, 100)

\* Check point distribution
RubricCheckPointSum(acc, criteria, stated_total) ==
    IF CriteriaPoints(criteria) # stated_total
    THEN AddIssue(acc, "Point mismatch: criteria sum to " \o ToString(CriteriaPoints(criteria))
                       \o " but total_points is " \o ToString(stated_total), 50)
    ELSE AddFactor(acc, 100)

\* `'name' not in criterion or len(criterion['name']) < 2`: appends only when it fires
CriterionCheckName(acc, criterion, i) ==
    IF "name" \notin DOMAIN criterion \/ Len(criterion.name) < 2
    THEN AddIssue(acc, "Criterion " \o ToString(i) \o " has invalid name", 0)
    ELSE acc

\* `'description' not in criterion or len(criterion['description']) < 10`: appends
\* only when it fires
CriterionCheckDescription(acc, criterion, i) ==
    IF "description" \notin DOMAIN criterion \/ Len(criterion.description) < 10
    THEN AddWarning(acc, "Criterion " \o ToString(i) \o " has short description", 80)
    ELSE acc

\* points = criterion.get('points', 0); points > stated_total * 0.5
CriterionCheckPoints(acc, criterion, i, stated_total) ==
    LET points == Get(criterion, "points", 0)
    IN  IF points <= 0
        THEN AddIssue(acc, "Criterion " \o ToString(i) \o " has invalid points: "
                           \o ToString(points), 0)
        ELSE IF 2 * points > stated_total
             THEN AddWarning(acc, "Criterion " \o ToString(i) \o " worth " \o ToString(points)
                                  \o " points (>50% of total)", 90)
             ELSE AddFactor(acc, 100)

RECURSIVE RubricCheckCriteria(_, _, _, _)
\* for i, criterion in enumerate(criteria): the three checks of criterion i+1
RubricCheckCriteria(acc, criteria, i, stated_total) ==
    IF i > Len(criteria)
    THEN acc
    ELSE LET c1 == CriterionCheckName(acc, criteria[i], i)
             c2 == CriterionCheckDescription(c1, criteria[i], i)
             c3 == CriterionCheckPoints(c2, criteria[i], i, stated_total)
         IN  RubricCheckCriteria(c3, criteria, i + 1, stated_total)

\* the checks after the `'criteria' not in rubric` return; rubric['criteria'] raises
\* KeyError on a rubric without the key
RubricFindings(rubric) ==
    IF "criteria" \notin DOMAIN rubric
    THEN Throw(NoFindings, "KeyError")
    ELSE LET criteria == rubric.criteria
             stated_total == Get(rubric, "total_points", 0)
             c1 == RubricCheckCount(NoFindings, criteria)
             c2 == RubricCheckPointSum(c1, criteria, stated_total)
         IN  RubricCheckCriteria(c2, criteria, 1, stated_total)

\* a rubric threshold of 0.90 in place of 0.80
RubricNeedsReview_Strict(issues, confidence) ==
    issues # <<>> \/ ConfLt(confidence, 90)

\* needs_review = bool(issues) or confidence < 0.8
RubricNeedsReview(issues, confidence) ==
    issues # <<>> \/ ConfLt(confidence, RubricReviewThreshold)

\* the early return testing another key
RubricMissingCriteria_WrongKey(rubric) == "total_points" \notin DOMAIN rubric

\* Check basic structure: the early return of a rubric without 'criteria'
RubricMissingCriteria(rubric) == "criteria" \notin DOMAIN rubric

verify_rubric(rubric) ==
    IF RubricMissingCriteria(rubric)
    THEN Returned(VerificationResult("rubric", rubric, Conf(0),
                                     <<"Missing criteria">>, <<>>, TRUE))
    ELSE LET acc == RubricFindings(rubric)
             confidence == MeanConfidence(acc.confidence_factors)
         IN  IF acc.exc # ""
             THEN Raised(acc.exc)
             ELSE Returned(VerificationResult("rubric", rubric, confidence,
                                              acc.issues, acc.warnings,
                                              RubricNeedsReview(acc.issues, confidence)))

(***************************************************************************)
(* verify_quiz_batch, verify_faq_batch                                     *)
(***************************************************************************)

RECURSIVE SumConfidence(_)
\* sum(r.confidence for r in results), as an exact rational
SumConfidence(results) ==
    IF results = <<>>
    THEN Conf(0)
    ELSE LET c == results[1].confidence
             rest == SumConfidence(Tail(results))
         IN  [num |-> c.num * rest.den + rest.num * c.den, den |-> c.den * rest.den]

\* the overall confidence without its division by len(results)
OverallConfidence_Sum(results) ==
    IF results # <<>>
    THEN SumConfidence(results)
    ELSE Conf(0)

\* sum(r.confidence for r in results) / len(results) if results else 0.0
OverallConfidence(results) ==
    IF results # <<>>
    THEN [num |-> SumConfidence(results).num,
          den |-> SumConfidence(results).den * Len(results)]
    ELSE Conf(0)

RECURSIVE QuizBatchLoop_Prepend(_, _, _)
\* the loop putting each result in front of the earlier ones
QuizBatchLoop_Prepend(questions, i, results) ==
    IF i > Len(questions)
    THEN Returned(results)
    ELSE LET result == verify_quiz_question(questions[i])
         IN  IF result.status = "raised"
             THEN result
             ELSE QuizBatchLoop_Prepend(questions, i + 1, <<result.value>> \o results)

RECURSIVE QuizBatchLoop(_, _, _)
\* for i, question in enumerate(questions): results.append(verify_quiz_question(question));
\* an exception of the evaluator leaves the loop
QuizBatchLoop(questions, i, results) ==
    IF i > Len(questions)
    THEN Returned(results)
    ELSE LET result == verify_quiz_question(questions[i])
         IN  IF result.status = "raised"
             THEN result
             ELSE QuizBatchLoop(questions, i + 1, Append(results, result.value))

verify_quiz_batch(questions) ==
    LET loop == QuizBatchLoop(questions, 1, <<>>)
    IN  IF loop.status = "raised"
        THEN loop
        ELSE Returned([results |-> loop.value,
                       overall_confidence |-> OverallConfidence(loop.value)])

RECURSIVE FaqBatchLoop(_, _, _)
\* for i, faq in enumerate(faqs): results.append(verify_faq_entry(faq))
FaqBatchLoop(faqs, i, results) ==
    IF i > Len(faqs)
    THEN Returned(results)
    ELSE LET result == verify_faq_entry(faqs[i])
         IN  IF result.status = "raised"
             THEN result
             ELSE FaqBatchLoop(faqs, i + 1, Append(results, result.value))

verify_faq_batch(faqs) ==
    LET loop == FaqBatchLoop(faqs, 1, <<>>)
    IN  IF loop.status = "raised"
        THEN loop
        ELSE Returned([results |-> loop.value,
                       overall_confidence |-> OverallConfidence(loop.value)])

(***************************************************************************)
(* The text a generation capability returns, and json.loads                *)
(*                                                                         *)
(* A response is a sequence of tokens: the fence ```, whitespace, a word   *)
(* (the language tag json, or any other text), or the text of one JSON     *)
(* document.  A JSON value is an object (a dict of the four fields, each   *)
(* present or not), an array or a string (of words), a number or null.     *)
(***************************************************************************)

Fence == [t |-> "fence"]

Ws == [t |-> "ws"]

Word(w) == [t |-> "word", w |-> w]

Doc(v) == [t |-> "json", v |-> v]

JsonObject(fields) == [kind |-> "object", fields |-> fields]

JsonArray(items) == [kind |-> "array", items |-> items]

JsonString(items) == [kind |-> "string", items |-> items]

JsonNumber(n) == [kind |-> "number", n |-> n]

JsonNull == [kind |-> "null"]

RECURSIVE LStrip(_)
\* the text without its leading whitespace
LStrip(text) ==
    IF text # <<>> /\ text[1] = Ws THEN LStrip(Tail(text)) ELSE text

RECURSIVE RStrip(_)
\* the text without its trailing whitespace
RStrip(text) ==
    IF text # <<>> /\ text[Len(text)] = Ws
    THEN RStrip(SubSeq(text, 1, Len(text) - 1))
    ELSE text

\* str.strip()
Strip(text) == RStrip(LStrip(text))

\* json_text.startswith("```")
StartsWithFence(text) == text # <<>> /\ text[1] = Fence

\* re.sub(r"^```(?:json)?\s*", "", json_text)
SubLeadingFence(text) ==
    IF StartsWithFence(text)
    THEN LET after == Tail(text)
         IN  IF after # <<>> /\ after[1] = Word("json")
             THEN LStrip(Tail(after))
             ELSE LStrip(after)
    ELSE text

\* re.sub(r"\s*```$", "", json_text)
SubTrailingFence(text) ==
    IF text # <<>> /\ text[Len(text)] = Fence
    THEN RStrip(SubSeq(text, 1, Len(text) - 1))
    ELSE text

\* lines 269-274: the text handed to json.loads
JsonText(response) ==
    LET json_text == Strip(response)
    IN  IF StartsWithFence(json_text)
        THEN Strip(SubTrailingFence(SubLeadingFence(json_text)))
        ELSE json_text

\* json.loads(json_text): one document, whitespace allowed around it; anything
\* else raises JSONDecodeError
JsonLoads(json_text) ==
    LET body == Strip(json_text)
    IN  IF Len(body) = 1 /\ body[1].t = "json"
        THEN Returned(body[1].v)
        ELSE Raised("JSONDecodeError")

(***************************************************************************)
(* verify_with_llm                                                         *)
(***************************************************************************)

ResultKeys == <<"confidence", "issues", "warnings", "suggestions">>

\* the "not available" dict with its message filed as an issue
NotAvailableResult_AsIssue ==
    JsonObject([confidence  |-> JsonNumber(50),
                issues      |-> <<"LLM verification not available">>,
                warnings    |-> <<>>,
                suggestions |-> <<>>])

\* the dict returned when _llm_function is None
NotAvailableResult ==
    JsonObject([confidence  |-> JsonNumber(50),
                issues      |-> <<>>,
                warnings    |-> <<"LLM verification not available">>,
                suggestions |-> <<>>])

\* the except clause with its message filed as a warning
FailedResult_AsWarning ==
    JsonObject([confidence  |-> JsonNumber(50),
                issues      |-> <<>>,
                warnings    |-> <<"LLM verification failed">>,
                suggestions |-> <<>>])

\* the dict returned by the except clause
FailedResult ==
    JsonObject([confidence  |-> JsonNumber(50),
                issues      |-> <<"LLM verification failed">>,
                warnings    |-> <<>>,
                suggestions |-> <<>>])

\* the defaults with a confidence of 0.0
DefaultField_Zero(key) == IF key = "confidence" THEN JsonNumber(0) ELSE <<>>

\* the value a key gets when the decoded object lacks it
DefaultField(key) == IF key = "confidence" THEN JsonNumber(50) ELSE <<>>

\* `key not in result`, for a value on which `in` is defined
KeyNotIn(key, result) ==
    IF result.kind = "object"
    THEN key \notin DOMAIN result.fields
    ELSE \A i \in DOMAIN result.items : result.items[i] # key

\* Validate structure (lines 279-286): `in` raises TypeError on a number or
\* null; result[key] = default raises TypeError on a list or a string
ValidateStructure(result) ==
    IF result.kind \in {"number", "null"}
    THEN Raised("TypeError")
    ELSE IF result.kind = "object"
         THEN Returned(JsonObject(
                  [key \in (DOMAIN result.fields) \cup PySet(ResultKeys) |->
                      IF key \in DOMAIN result.fields
                      THEN result.fields[key]
                      ELSE DefaultField(key)]))
         ELSE IF \E i \in DOMAIN ResultKeys : KeyNotIn(ResultKeys[i], result)
              THEN Raised("TypeError")
              ELSE Returned(result)

\* the try block (lines 265-288) for a capability that behaves as `reply`;
\* callee is the value of _llm_function at the call (calling None raises TypeError)
TryBlock(callee, reply) ==
    IF callee = "None"
    THEN Raised("TypeError")
    ELSE IF reply.kind = "raise"
         THEN Raised("Exception")
         ELSE LET decoded == JsonLoads(JsonText(reply.text))
              IN  IF decoded.status = "raised"
                  THEN decoded
                  ELSE ValidateStructure(decoded.value)

\* lines 265-297: what verify_with_llm returns once past the availability check
InvokeAndParse(callee, reply) ==
    LET attempt == TryBlock(callee, reply)
    IN  IF attempt.status = "raised"
        THEN Returned(FailedResult)
        ELSE attempt

(***************************************************************************)
(* verify_quiz_answer_correctness                                          *)
(***************************************************************************)

AnswerReviewThreshold == 80

\* options[correct_index]: Python indexing, negative indices count from the end
PyIndex(options, correct_index) ==
    IF 0 <= correct_index /\ correct_index < Len(options)
    THEN Returned(options[correct_index + 1])
    ELSE IF correct_index < 0 /\ -correct_index <= Len(options)
         THEN Returned(options[Len(options) + correct_index + 1])
         ELSE Raised("IndexError")

\* an index test that lets the index one past the end through
AnswerPrelude_OnePastEnd(question) ==
    LET options == Get(question, "options", <<>>)
        correct_index == Get(question, "correct_index", 0)
    IN  IF correct_index <= Len(options)
        THEN IF PyIndex(options, correct_index).status = "raised"
             THEN PyIndex(options, correct_index)
             ELSE [status |-> "call"]
        ELSE Returned(VerificationResult("quiz_answer_verification", question, Conf(0),
                                         <<"Invalid correct_index">>, <<>>, TRUE))

\* lines 310-324: "call" when verify_with_llm is reached, else the outcome
AnswerPrelude(question) ==
    LET options == Get(question, "options", <<>>)
        correct_index == Get(question, "correct_index", 0)
    IN  IF correct_index < Len(options)
        THEN IF PyIndex(options, correct_index).status = "raised"
             THEN PyIndex(options, correct_index)
             ELSE [status |-> "call"]
        ELSE Returned(VerificationResult("quiz_answer_verification", question, Conf(0),
                                         <<"Invalid correct_index">>, <<>>, TRUE))

\* the answer check reviewed under the threshold of the structural quiz check
AnswerNeedsReview_QuizThreshold(issues, confidence) == ConfLt(confidence, QuizReviewThreshold)

\* needs_review = llm_result['confidence'] < 0.8
AnswerNeedsReview(issues, confidence) == ConfLt(confidence, AnswerReviewThreshold)

\* lines 354-361: llm_result[...] raises TypeError on a list or a string, and
\* `<` raises TypeError on a confidence that is not a number
AnswerResult(question, llm_result) ==
    IF llm_result.kind # "object"
    THEN Raised("TypeError")
    ELSE LET f == llm_result.fields
         IN  IF f.confidence.kind # "number"
             THEN Raised("TypeError")
             ELSE Returned(VerificationResult(
                      "quiz_answer_verification", question, Conf(f.confidence.n),
                      f.issues, f.warnings,
                      AnswerNeedsReview(f.issues, Conf(f.confidence.n))))

(***************************************************************************)
(* create_review_report                                                    *)
(*                                                                         *)
(* The report is the list `lines` that "\n".join makes the text of.  A     *)
(* line is the sequence of the pieces of its f-string, literal and         *)
(* formatted in turn, so that the text of a line is their concatenation; a *)
(* literal line is one piece and the empty line is <<>>.  A character      *)
(* outside ASCII is written {U+xxxx}.                                      *)
(***************************************************************************)

RECURSIVE Times(_, _)
\* c * n, for strings
Times(c, n) == IF n = 0 THEN "" ELSE c \o Times(c, n - 1)

\* f"{confidence:.1%}": the percentage rounded to one decimal (to even on a tie)
Percent(confidence) ==
    LET a == IF confidence.num < 0 THEN -confidence.num ELSE confidence.num
        q == (10 * a) \div confidence.den
        r == (10 * a) % confidence.den
        tenths == IF 2 * r > confidence.den \/ (2 * r = confidence.den /\ q % 2 = 1)
                  THEN q + 1
                  ELSE q
    IN  (IF confidence.num < 0 THEN "-" ELSE "") \o ToString(tenths \div 10)
        \o "." \o ToString(tenths % 10) \o "%"

\* content_type.upper()
Upper(content_type) ==
    CASE content_type = "quiz_question" -> "QUIZ_QUESTION"
      [] content_type = "quiz_answer_verification" -> "QUIZ_ANSWER_VERIFICATION"
      [] content_type = "faq_entry" -> "FAQ_ENTRY"
      [] content_type = "rubric" -> "RUBRIC"

\* the first six lines
ReportHeader(verifications, now) ==
    << <<Times("=", 70)>>,
       <<"VERIFICATION REPORT">>,
       <<Times("=", 70)>>,
       <<"Generated: ", now>>,
       <<"Items Reviewed: ", ToString(Len(verifications))>>,
       <<>> >>

\* needs_review = [v for v in verifications if v.needs_review]
NeedingReview(verifications) == SelectSeq(verifications, LAMBDA v : v.needs_review)

\* Summary statistics
ReportSummary(verifications) ==
    << <<"SUMMARY">>,
       <<Times("-", 70)>>,
       <<"Overall Confidence: ", Percent(OverallConfidence(verifications))>>,
       <<"Items Needing Review: ", ToString(Len(NeedingReview(verifications))), " / ",
         ToString(Len(verifications))>>,
       <<>> >>

\* Status indicator, and the heading of the block of item i
ItemHeading(i, v) ==
    << << "\n", ToString(i), ". ", Upper(v.content_type), " - Confidence: ",
          Percent(v.confidence), " - ",
          IF v.needs_review THEN "{U+26A0}{U+FE0F}" ELSE "{U+2705}", " ",
          IF v.needs_review THEN "NEEDS REVIEW" ELSE "PASSED" >>,
       <<>> >>

\* For items that passed, explain why
ItemPassed_WhenNotFlagged(v) ==
    IF ~v.needs_review
    THEN << <<"   {U+2705} PASSED VERIFICATION:">>,
            <<"   {U+2022} All structural checks passed">>,
            <<"   {U+2022} Factual accuracy confirmed">>,
            <<"   {U+2022} No issues or warnings detected">>,
            <<"   {U+2022} Confidence meets threshold ({U+2265}75%)">> >>
    ELSE <<>>

ItemPassed(v) ==
    IF ~v.needs_review /\ v.issues = <<>> /\ v.warnings = <<>>
    THEN << <<"   {U+2705} PASSED VERIFICATION:">>,
            <<"   {U+2022} All structural checks passed">>,
            <<"   {U+2022} Factual accuracy confirmed">>,
            <<"   {U+2022} No issues or warnings detected">>,
            <<"   {U+2022} Confidence meets threshold ({U+2265}75%)">> >>
    ELSE <<>>

\* Show issues if any
ItemIssues(v) ==
    IF v.issues # <<>>
    THEN << <<"   {U+274C} CRITICAL ISSUES:">> >>
         \o [k \in DOMAIN v.issues |-> <<"      {U+2022} ", v.issues[k]>>]
    ELSE <<>>

\* Show warnings if any
ItemWarnings(v) ==
    IF v.warnings # <<>>
    THEN << <<"   {U+26A0}{U+FE0F}  WARNINGS:">> >>
         \o [k \in DOMAIN v.warnings |-> <<"      {U+2022} ", v.warnings[k]>>]
    ELSE <<>>

\* the lines of item i in the detailed analysis
ItemBlock(i, v) ==
    ItemHeading(i, v) \o ItemPassed(v) \o ItemIssues(v) \o ItemWarnings(v) \o << <<>> >>

RECURSIVE ReportDetails(_, _)
\* for i, v in enumerate(verifications, 1): the blocks of items i, i+1, ...
ReportDetails(verifications, i) ==
    IF i > Len(verifications)
    THEN <<>>
    ELSE ItemBlock(i, verifications[i]) \o ReportDetails(verifications, i + 1)

\* the quick summary with a line for the items needing review only
ReportQuickSummary_ReviewOnly(verifications) ==
    LET flagged == NeedingReview(verifications)
    IN  [i \in DOMAIN flagged |->
            << ToString(i), ". ", Percent(flagged[i].confidence), " - ",
               "{U+26A0}{U+FE0F}  NEEDS REVIEW" >>]

\* for i, v in enumerate(verifications, 1): the quick-summary line of item i
ReportQuickSummary(verifications) ==
    [i \in DOMAIN verifications |->
        << ToString(i), ". ", Percent(verifications[i].confidence), " - ",
           IF verifications[i].needs_review
           THEN "{U+26A0}{U+FE0F}  NEEDS REVIEW"
           ELSE "{U+2705} PASSED" >>]

\* the list `lines` of create_review_report, for datetime.now() formatted as `now`
ReportLines(verifications, now) ==
    ReportHeader(verifications, now)
    \o ReportSummary(verifications)
    \o << <<"DETAILED ANALYSIS OF ALL ITEMS">>, <<Times("-", 70)>> >>
    \o ReportDetails(verifications, 1)
    \o << <<>>, <<"QUICK SUMMARY">>, <<Times("-", 70)>> >>
    \o ReportQuickSummary(verifications)
    \o << <<>>, <<Times("=", 70)>>, <<"END OF REPORT">>, <<Times("=", 70)>> >>

(***************************************************************************)
(* Inputs                                                                  *)
(***************************************************************************)

\* the largest batch handed to verify_quiz_batch and verify_faq_batch
MaxBatch == 2

\* an optional key: absent (<<>>) or present with a value of S (<<v>>)
Optional(S) == {<<>>} \cup {<<v>> : v \in S}

\* the dict with those of `keys` that are present in `opts`
Dict(keys, opts) ==
    [k \in {keys[i] : i \in {j \in DOMAIN keys : opts[j] # <<>>}} |->
        opts[CHOOSE i \in DOMAIN keys : keys[i] = k][1]]

Dict3(k1, o1, k2, o2, k3, o3) == Dict(<<k1, k2, k3>>, <<o1, o2, o3>>)

QuestionTexts ==
    { <<>>,
      <<"Q", "?">>,
      <<"P", "i", "c", "k", " ", "o", "n", "e", "?">>,
      Rep("x", 10),
      <<"W", "h", "a", "t", " ", "i", "s", " ", "2", "+", "2", "?">>,
      <<"B", "r", "o", "k", "e", "n", " ", "i", "n", "d", "e", "x", "?">>,
      Rep("x", 299) \o <<"?">>,
      Rep("x", 300) \o <<"?">> }

OptionLists ==
    { <<>>,
      << <<"3">>, <<"4">>, <<"5">>, <<"6">> >>,
      << <<"A">>, <<"A">>, <<"C">>, <<"D">> >>,
      << <<"A">>, <<"B">>, <<"C">> >>,
      << <<"A">>, <<"A">>, <<"C">> >>,
      << <<"Y", "e", "s">>, <<"N", "o">> >>,
      << <<"L", "o", "n", "d", "o", "n">>, <<"B", "e", "r", "l", "i", "n">>,
         <<"P", "a", "r", "i", "s">>, <<"M", "a", "d", "r", "i", "d">> >>,
      << <<"a", "b">>, <<"c", "d">>, <<"e", "f">>, Rep("z", 7) >>,
      << <<"a", "b">>, <<"c", "d">>, Rep("z", 9) >>,
      << <<>>, <<"c", "d">>, <<"e", "f">>, <<"g", "h">> >>,
      << Rep("p", 200), Rep("q", 200), Rep("r", 200), Rep("s", 201) >>,
      << <<"a", "b">>, <<"c", "d">>, <<"e", "f">>, <<"g", "h">>, <<"i", "j">> >> }

CorrectIndexes == {-5, -1, 0, 1, 3, 4, 5, 7}

QuizRecords ==
    { Dict3("question", q, "options", o, "correct_index", i) :
        q \in Optional(QuestionTexts), o \in Optional(OptionLists),
        i \in Optional(CorrectIndexes) }

\* the questions of the quiz records handed to the batch
SomeQuestions ==
    { <<"Q", "?">>,
      <<"W", "h", "a", "t", " ", "i", "s", " ", "2", "+", "2", "?">> }

SomeOptionLists ==
    { <<>>,
      << <<"3">>, <<"4">>, <<"5">>, <<"6">> >>,
      << <<"A">>, <<"A">>, <<"C">> >> }

\* the quiz records handed to verify_quiz_answer_correctness
SomeQuizRecords ==
    { Dict3("question", q, "options", o, "correct_index", i) :
        q \in {<< <<"W", "h", "a", "t", " ", "i", "s", " ", "2", "+", "2", "?">> >>},
        o \in Optional(SomeOptionLists),
        i \in Optional(CorrectIndexes) }

BatchOptionLists ==
    { << <<"3">>, <<"4">>, <<"5">>, <<"6">> >>,
      << <<"A">>, <<"A">>, <<"C">> >>,
      << <<"L", "o", "n", "d", "o", "n">>, <<"B", "e", "r", "l", "i", "n">>,
         <<"P", "a", "r", "i", "s">>, <<"M", "a", "d", "r", "i", "d">> >> }

BatchQuizRecords ==
    { Dict3("question", q, "options", o, "correct_index", i) :
        q \in {<<v>> : v \in SomeQuestions}, o \in {<<v>> : v \in BatchOptionLists},
        i \in {<<1>>, <<7>>} }

FaqQuestions ==
    { <<>>,
      <<"W", "h", "y", "?">>,
      <<"W", "h", "e", "n", "?">>,
      <<"H", "o", "w", " ", "d", "o", " ", "I", " ", "s", "u", "b", "m", "i", "t", "?">>,
      <<"H", "o", "w", " ", "d", "o", " ", "I", " ", "s", "u", "b", "m", "i", "t">> }

FaqAnswers ==
    { <<>>,
      <<"t", "B", "d">>,
      Rep("y", 9),
      Rep("y", 10),
      <<"T", "O", "D", "O", ":", " ", "a", "d", "d", " ", "c", "o", "n", "t", "e", "n", "t">>,
      <<"S", "e", "e", " ", "t", "h", "e", " ", "s", "y", "l", "l", "a", "b", "u", "s", ".">>,
      <<"N", "o", "t", " ", "y", "e", "t", ",", " ", "c", "o", "m", "i", "n", "g", " ",
        "S", "O", "O", "N">>,
      <<"S", "e", "e", " ", "[", "I", "n", "s", "e", "r", "t", " ", "l", "i", "n", "k", "]">>,
      Rep("y", 1000),
      Rep("y", 1001),
      Rep("y", 1001) \o <<"F", "i", "x", "M", "e">> }

FaqCategories ==
    { <<>>, General, <<"G", "r", "a", "d", "i", "n", "g">>,
      <<"g", "e", "n", "e", "r", "a", "l">> }

FaqRecords ==
    { Dict3("question", q, "answer", a, "category", c) :
        q \in Optional(FaqQuestions), a \in Optional(FaqAnswers),
        c \in Optional(FaqCategories) }

BatchFaqRecords ==
    { Dict3("question", q, "answer", a, "category", c) :
        q \in {<<v>> : v \in {<<"W", "h", "y", "?">>,
                              <<"H", "o", "w", " ", "d", "o", " ", "I", " ", "s", "u", "b",
                                "m", "i", "t", "?">>}},
        a \in {<<v>> : v \in {<<"t", "B", "d">>,
                              <<"S", "e", "e", " ", "t", "h", "e", " ", "s", "y", "l", "l",
                                "a", "b", "u", "s", ".">>}},
        c \in Optional({General, <<"G", "r", "a", "d", "i", "n", "g">>}) }

\* the sequences over S of length at most n
SeqUpTo(S, n) == UNION {[1..k -> S] : k \in 0..n}

CriterionNames == { <<>>, <<"T">>, <<"T", "h", "e", "s", "i", "s">> }

CriterionDescriptions ==
    { <<"S", "h", "o", "r", "t">>,
      <<"S", "t", "a", "t", "e", "s", " ", "a", " ", "c", "l", "e", "a", "r", " ",
        "t", "h", "e", "s", "i", "s">> }

CriterionPoints == {-5, 0, 5, 10}

Criteria ==
    { Dict3("name", n, "description", d, "points", p) :
        n \in Optional(CriterionNames), d \in Optional(CriterionDescriptions),
        p \in Optional(CriterionPoints) }

\* well-formed criteria, to build the longer lists from
GoodCriterion(p) ==
    [name |-> <<"T", "h", "e", "s", "i", "s">>,
     description |-> <<"S", "t", "a", "t", "e", "s", " ", "a", " ", "c", "l", "e", "a", "r",
                       " ", "t", "h", "e", "s", "i", "s">>,
     points |-> p]

CriteriaLists ==
    { <<>> }
    \cup { <<c>> : c \in Criteria }
    \cup { <<GoodCriterion(5), c>> : c \in Criteria }
    \cup { <<GoodCriterion(p1), GoodCriterion(p2), GoodCriterion(p3)>> :
             p1 \in {5, 10}, p2 \in {5, 10}, p3 \in {-5, 0, 5, 10} }
    \cup { [i \in 1..n |-> GoodCriterion(5)] : n \in {4, 10, 11} }

TotalPoints == {0, 10, 15, 20, 50, 55}

RubricRecords ==
    { Dict3("criteria", c, "total_points", t, "title", n) :
        c \in Optional(CriteriaLists), t \in Optional(TotalPoints),
        n \in Optional({<<"E", "s", "s", "a", "y">>}) }

\* the records a caller evaluates more than once: the second example of the
\* module, a FAQ entry with placeholder text, a rubric whose points sum to 15
ReviewedRecords ==
    { [question |-> <<"Q", "?">>,
       options |-> << <<"A">>, <<"A">>, <<"C">> >>,
       correct_index |-> 5],
      [question |-> <<"H", "o", "w", " ", "d", "o", " ", "I", " ", "s", "u", "b", "m", "i", "t", "?">>,
       answer |-> <<"T", "O", "D", "O", ":", " ", "a", "d", "d", " ", "c", "o", "n", "t", "e", "n", "t">>,
       category |-> General],
      [criteria |-> <<GoodCriterion(5), GoodCriterion(10)>>, total_points |-> 20] }

\* the longest list handed to create_review_report
MaxReport == 2

\* the results handed to create_review_report: what the evaluators return for
\* a clean quiz question, a quiz question with five issues and a warning, and a
\* FAQ entry with a generic category only, and what the answer check returns
\* for a capability that finds a second correct option at confidence 0.9 and
\* for one that returns an empty object
ReportedResults ==
    { verify_quiz_question(
          [question |-> <<"W", "h", "a", "t", " ", "i", "s", " ", "2", "+", "2", "?">>,
           options |-> << <<"L", "o", "n", "d", "o", "n">>, <<"B", "e", "r", "l", "i", "n">>,
                          <<"P", "a", "r", "i", "s">>, <<"M", "a", "d", "r", "i", "d">> >>,
           correct_index |-> 1]).value,
      verify_quiz_question(
          [question |-> <<"Q">>,
           options |-> << <<"A">>, <<"A">>, <<"C">> >>,
           correct_index |-> 5]).value,
      verify_faq_entry(
          [question |-> <<"W", "h", "e", "n", "?">>,
           answer |-> <<"S", "e", "e", " ", "t", "h", "e", " ", "s", "y", "l", "l", "a", "b", "u", "s", ".">>,
           category |-> General]).value,
      AnswerResult(
          [question |-> <<"W", "h", "a", "t", " ", "i", "s", " ", "2", "+", "2", "?">>,
           options |-> << <<"3">>, <<"4">>, <<"5">>, <<"6">> >>,
           correct_index |-> 1],
          ValidateStructure(JsonObject(
              [confidence |-> JsonNumber(90),
               issues |-> <<"Another option is also correct">>])).value).value,
      AnswerResult(
          [question |-> <<"W", "h", "a", "t", " ", "i", "s", " ", "2", "+", "2", "?">>,
           options |-> << <<"3">>, <<"4">>, <<"5">>, <<"6">> >>,
           correct_index |-> 1],
          ValidateStructure(JsonObject(<<>>)).value).value }

\* datetime.now() at the call, formatted
Timestamps == {"2025-01-01 09:00:00", "2025-06-30 23:59:59"}

\* the default output_path
ReportPath == "verification_report.txt"

\* what a decoded object may hold as its confidence: numbers (in hundredths),
\* a text, null
ConfidenceValues ==
    {JsonNumber(n) : n \in {-20, 50, 79, 80, 90, 150}}
    \cup {JsonString(<<"high">>), JsonNull}

JsonObjects ==
    { JsonObject(Dict(ResultKeys, <<c, i, w, g>>)) :
        c \in Optional(ConfidenceValues),
        i \in Optional({<<>>, <<"Another option is also correct">>}),
        w \in Optional({<<"Question is subjective">>}),
        g \in Optional({<<"Reword the question">>}) }

JsonDocuments ==
    JsonObjects
    \cup { JsonArray(<<>>), JsonArray(ResultKeys),
           JsonString(<<"ok">>), JsonString(ResultKeys),
           JsonNumber(90), JsonNull }

\* the documents that are also returned wrapped
WrappedDocuments ==
    { v \in JsonDocuments :
        v.kind = "object" => DOMAIN v.fields \subseteq {"confidence", "issues"} }

\* the texts a capability may return around one document
Wrappings(v) ==
    { << Ws, Doc(v), Ws >>,
      << Fence, Word("json"), Ws, Doc(v), Ws, Fence >>,
      << Fence, Ws, Doc(v), Ws, Fence >>,
      << Ws, Fence, Word("json"), Ws, Doc(v), Ws, Fence, Ws >>,
      << Fence, Word("python"), Ws, Doc(v), Ws, Fence >>,
      << Fence, Word("json"), Ws, Doc(v) >>,
      << Doc(v), Ws, Fence >>,
      << Word("Here is my review:"), Ws, Doc(v) >> }

\* the behaviours of one capability call: raise, or return a text
Replies ==
    { [kind |-> "raise"] }
    \cup { [kind |-> "return", text |-> t] :
             t \in {<<>>, << Word("I cannot help with that") >>}
                   \cup { << Doc(v) >> : v \in JsonDocuments }
                   \cup UNION {Wrappings(v) : v \in WrappedDocuments} }

NoReply == [kind |-> "none"]

\* the values of _llm_function: None, or one of two capabilities
Capabilities == {"None", "f1", "f2"}

ContentTypes == {"quiz_answer", "faq"}

(***************************************************************************)
(* The state machine                                                       *)
(*                                                                         *)
(* One caller thread makes one call at a time (pc: "idle" -> "done", or    *)
(* "idle" -> "invoke" -> "done" for a semantic check that reaches the      *)
(* capability) and takes the outcome (Return).  Another thread may call    *)
(* set_llm_function at any moment: verify_with_llm reads _llm_function     *)
(* twice, at line 232 and at line 266.                                     *)
(***************************************************************************)

VARIABLES
    llm_function,  \* the module-level _llm_function
    pc,            \* "idle", "invoke" (between lines 232 and 266), "done"
    op,            \* the function called
    arg,           \* its argument
    res,           \* its outcome: Returned(v), Raised(e), or pending
    llm_checked,   \* _llm_function as read at line 232 ("" when not read)
    path,          \* the return of verify_with_llm taken ("" when none)
    reply,         \* how the capability behaved when called
    invocations,   \* the calls of the capability made by this call
    kept,          \* an earlier result the caller still holds (none at first)
    report_file    \* the file at the default output_path

vars ==
    <<llm_function, pc, op, arg, res, llm_checked, path, reply, invocations, kept,
      report_file>>

\* no file has been written
NoFile == [written |-> FALSE]

NoCall == [status |-> "none"]

Pending == [status |-> "pending"]

Init ==
    /\ llm_function = "None"
    /\ pc = "idle"
    /\ op = "none"
    /\ arg = <<>>
    /\ res = NoCall
    /\ llm_checked = ""
    /\ path = ""
    /\ reply = NoReply
    /\ invocations = 0
    /\ kept = NoCall
    /\ report_file = NoFile

\* set_llm_function(llm_func), from any thread at any moment
set_llm_function(llm_func) ==
    /\ llm_function' = llm_func
    /\ UNCHANGED <<pc, op, arg, res, llm_checked, path, reply, invocations, kept, report_file>>

SetLlmFunction ==
    /\ pc \in {"idle", "invoke", "done"}
    /\ \E llm_func \in Capabilities : set_llm_function(llm_func)

\* a structural call whose result depends on the capability registered
Structural_ReadingCapability(name, input, outcome) ==
    /\ pc' = "done"
    /\ op' = name
    /\ arg' = input
    /\ res' = IF llm_function # "None" /\ outcome.status = "returned"
              THEN Returned([outcome.value EXCEPT !.warnings = <<>>])
              ELSE outcome
    /\ UNCHANGED <<llm_function, llm_checked, path, reply, invocations, kept, report_file>>

\* a structural call that unregisters the capability as it runs
Structural_Unregistering(name, input, outcome) ==
    /\ pc' = "done"
    /\ op' = name
    /\ arg' = input
    /\ res' = outcome
    /\ llm_function' = "None"
    /\ UNCHANGED <<llm_checked, path, reply, invocations, kept, report_file>>

\* a call of a structural function: it runs to its end without touching _llm_function
Structural(name, input, outcome) ==
    /\ pc' = "done"
    /\ op' = name
    /\ arg' = input
    /\ res' = outcome
    /\ UNCHANGED <<llm_function, llm_checked, path, reply, invocations, kept, report_file>>

CallVerifyQuizQuestion ==
    /\ pc = "idle"
    /\ \E question \in QuizRecords :
           Structural("verify_quiz_question", question, verify_quiz_question(question))

CallVerifyFaqEntry ==
    /\ pc = "idle"
    /\ \E faq \in FaqRecords :
           Structural("verify_faq_entry", faq, verify_faq_entry(faq))

CallVerifyRubric ==
    /\ pc = "idle"
    /\ \E rubric \in RubricRecords :
           Structural("verify_rubric", rubric, verify_rubric(rubric))

CallVerifyQuizBatch ==
    /\ pc = "idle"
    /\ \E questions \in SeqUpTo(BatchQuizRecords, MaxBatch) :
           Structural("verify_quiz_batch", questions, verify_quiz_batch(questions))

CallVerifyFaqBatch ==
    /\ pc = "idle"
    /\ \E faqs \in SeqUpTo(BatchFaqRecords, MaxBatch) :
           Structural("verify_faq_batch", faqs, verify_faq_batch(faqs))

\* what the caller of verify_with_llm makes of the dict it returns
Finish(name, input, llm_result) ==
    IF name = "verify_quiz_answer_correctness"
    THEN AnswerResult(input, llm_result)
    ELSE Returned(llm_result)

\* line 232 of verify_with_llm, entered from `name`: return the "not available"
\* dict, or go on to the call of the capability
AvailabilityCheck(name, input) ==
    /\ op' = name
    /\ arg' = input
    /\ llm_checked' = llm_function
    /\ reply' = NoReply
    /\ invocations' = 0
    /\ IF llm_function = "None"
       THEN /\ path' = "not_available"
            /\ res' = Finish(name, input, NotAvailableResult)
            /\ pc' = "done"
       ELSE /\ path' = ""
            /\ res' = Pending
            /\ pc' = "invoke"
    /\ UNCHANGED <<llm_function, kept, report_file>>

CallVerifyWithLlm ==
    /\ pc = "idle"
    /\ \E content_type \in ContentTypes :
           AvailabilityCheck("verify_with_llm", [content_type |-> content_type])

\* verify_quiz_answer_correctness up to the availability check of verify_with_llm
CallVerifyQuizAnswerCorrectness ==
    /\ pc = "idle"
    /\ \E question \in SomeQuizRecords :
           IF AnswerPrelude(question).status = "call"
           THEN AvailabilityCheck("verify_quiz_answer_correctness", question)
           ELSE /\ op' = "verify_quiz_answer_correctness"
                /\ arg' = question
                /\ res' = AnswerPrelude(question)
                /\ pc' = "done"
                /\ UNCHANGED <<llm_function, llm_checked, path, reply, invocations, kept, report_file>>

\* a try block that calls the capability a second time after a first failure
Invoke_Retrying ==
    /\ pc = "invoke"
    /\ \E r \in (IF llm_function = "None" THEN {NoReply} ELSE Replies) :
           /\ reply' = r
           /\ invocations' = invocations + (IF llm_function = "None" THEN 0 ELSE 1)
           /\ IF TryBlock(llm_function, r).status = "raised" /\ invocations = 0
                 /\ llm_function # "None"
              THEN /\ path' = path
                   /\ res' = res
                   /\ pc' = "invoke"
              ELSE /\ path' = IF TryBlock(llm_function, r).status = "raised"
                              THEN "failed" ELSE "parsed"
                   /\ res' = Finish(op, arg, InvokeAndParse(llm_function, r).value)
                   /\ pc' = "done"
    /\ UNCHANGED <<llm_function, op, arg, llm_checked, kept, report_file>>

\* lines 265-297 of verify_with_llm and the rest of its caller: the capability
\* read at line 266 is called once and behaves as `r` (None cannot be called)
Invoke ==
    /\ pc = "invoke"
    /\ \E r \in (IF llm_function = "None" THEN {NoReply} ELSE Replies) :
           /\ reply' = r
           /\ invocations' = invocations + (IF llm_function = "None" THEN 0 ELSE 1)
           /\ path' = IF TryBlock(llm_function, r).status = "raised"
                      THEN "failed" ELSE "parsed"
           /\ res' = Finish(op, arg, InvokeAndParse(llm_function, r).value)
    /\ pc' = "done"
    /\ UNCHANGED <<llm_function, op, arg, llm_checked, kept, report_file>>

\* the caller takes the outcome; the next call starts afresh
Return ==
    /\ pc = "done"
    /\ pc' = "idle"
    /\ op' = "none"
    /\ arg' = <<>>
    /\ res' = NoCall
    /\ llm_checked' = ""
    /\ path' = ""
    /\ reply' = NoReply
    /\ invocations' = 0
    /\ UNCHANGED <<llm_function, kept, report_file>>

Next ==
    \/ SetLlmFunction
    \/ CallVerifyQuizQuestion
    \/ CallVerifyFaqEntry
    \/ CallVerifyRubric
    \/ CallVerifyQuizBatch
    \/ CallVerifyFaqBatch
    \/ CallVerifyWithLlm
    \/ CallVerifyQuizAnswerCorrectness
    \/ Invoke
    \/ Return

Spec == Init /\ [][Next]_vars

\* the caller keeps the result of a structural evaluation of one of the reviewed
\* records, made before any capability is registered, to compare later results with
Remember ==
    /\ pc = "done"
    /\ op \in {"verify_quiz_question", "verify_faq_entry", "verify_rubric"}
    /\ arg \in ReviewedRecords
    /\ llm_function = "None"
    /\ kept = NoCall
    /\ kept' = [op |-> op, arg |-> arg, res |-> res]
    /\ UNCHANGED <<llm_function, pc, op, arg, res, llm_checked, path, reply, invocations,
                   report_file>>

\* the calls of Spec, made by a caller that keeps an earlier result
NextKeeping ==
    \/ Next
    \/ Remember

SpecKeeping == Init /\ [][NextKeeping]_vars

\* create_review_report(verifications): the lines are written to output_path,
\* over any earlier report, and the path is returned
create_review_report(verifications, now) ==
    /\ pc' = "done"
    /\ op' = "create_review_report"
    /\ arg' = verifications
    /\ report_file' = [written |-> TRUE, lines |-> ReportLines(verifications, now)]
    /\ res' = Returned(ReportPath)
    /\ UNCHANGED <<llm_function, llm_checked, path, reply, invocations, kept>>

CallCreateReviewReport ==
    /\ pc = "idle"
    /\ \E verifications \in SeqUpTo(ReportedResults, MaxReport), now \in Timestamps :
           create_review_report(verifications, now)

\* a caller that builds reports of the results it holds
NextReporting ==
    \/ CallCreateReviewReport
    \/ Return

SpecReporting == Init /\ [][NextReporting]_vars

(***************************************************************************)
(* Properties                                                              *)
(***************************************************************************)

StructuralEvaluators == {"verify_quiz_question", "verify_faq_entry", "verify_rubric"}

BatchAggregators == {"verify_quiz_batch", "verify_faq_batch"}

SemanticVerifiers == {"verify_with_llm", "verify_quiz_answer_correctness"}

\* a call has ended by returning
HasReturned(names) == pc = "done" /\ op \in names /\ res.status = "returned"

\* the Verification Results held by the outcome of the call that has just ended
ProducedResults ==
    IF HasReturned(StructuralEvaluators \cup {"verify_quiz_answer_correctness"})
    THEN {res.value}
    ELSE IF HasReturned(BatchAggregators)
         THEN PySet(res.value.results)
         ELSE {}

\* the review threshold of a content type, in hundredths
ThresholdOf(content_type) ==
    IF content_type = "rubric" THEN RubricReviewThreshold
    ELSE IF content_type = "quiz_answer_verification" THEN AnswerReviewThreshold
    ELSE IF content_type = "faq_entry" THEN FaqReviewThreshold
    ELSE QuizReviewThreshold

\* C1: every Verification Result produced by an evaluator has a confidence
\* between 0.0 and 1.0, whatever the record and whatever the capability returns.
C1_ConfidenceInUnitInterval ==
    \A r \in ProducedResults : ConfGe(r.confidence, 0) /\ ConfLe(r.confidence, 100)

\* C2: in every Verification Result, needs_review is true exactly when issues is
\* non-empty or the confidence is below the threshold of the content type.
C2_NeedsReviewDerived ==
    \A r \in ProducedResults :
        r.needs_review <=>
            (r.issues # <<>> \/ ConfLt(r.confidence, ThresholdOf(r.content_type)))

\* C3: verify_with_llm and verify_quiz_answer_correctness always return a result
\* and never raise, for every quiz record and every behaviour of the capability.
C3_SemanticVerifierTotal ==
    (pc = "done" /\ op \in SemanticVerifiers) => res.status = "returned"

\* the capability was called and raised, or returned a text that does not decode
\* to an object: not one JSON document once whitespace and fences are stripped,
\* or a number or null, or a list or string lacking one of the four field names
Undecodable(r) ==
    \/ r.kind = "raise"
    \/ /\ r.kind = "return"
       /\ LET decoded == JsonLoads(JsonText(r.text))
          IN  \/ decoded.status = "raised"
              \/ decoded.value.kind \in {"number", "null"}
              \/ /\ decoded.value.kind \in {"array", "string"}
                 /\ \E i \in DOMAIN ResultKeys :
                        \A j \in DOMAIN decoded.value.items :
                            decoded.value.items[j] # ResultKeys[i]

C5_NotAvailableOnlyWhenUnregistered ==
    (pc = "done" /\ op \in SemanticVerifiers /\ llm_checked # "") =>
        /\ llm_checked = "None" =>
              /\ path = "not_available"
              /\ invocations = 0
              /\ res.status = "returned"
              /\ LET v == IF op = "verify_with_llm" THEN res.value.fields ELSE res.value
                 IN  /\ v.confidence =
                            (IF op = "verify_with_llm" THEN JsonNumber(50) ELSE Conf(50))
                     /\ Len(v.warnings) = 1
                     /\ v.issues = <<>>
        /\ llm_checked # "None" => path # "not_available"

\* C5 witness: verify_with_llm has returned after finding no capability
C5_Witness ==
    /\ pc = "done"
    /\ op = "verify_with_llm"
    /\ llm_checked = "None"
    /\ res.status = "returned"

\* the record {question: "What is 2+2?", options: ["3","4","5","6"], correct_index: 1}
ExampleOne ==
    [question |-> <<"W", "h", "a", "t", " ", "i", "s", " ", "2", "+", "2", "?">>,
     options |-> << <<"3">>, <<"4">>, <<"5">>, <<"6">> >>,
     correct_index |-> 1]

\* C6 as stated: verify_quiz_question on "What is 2+2?" with the options
\* "3", "4", "5", "6" and correct_index 1 returns confidence 1.0, needs_review
\* false and no issues or warnings.
C6_ExampleIsClean ==
    (pc = "done" /\ op = "verify_quiz_question" /\ arg = ExampleOne) =>
        /\ res.status = "returned"
        /\ ConfIs(res.value.confidence, 100)
        /\ ~res.value.needs_review
        /\ res.value.issues = <<>>
        /\ res.value.warnings = <<>>

\* C6, amended: on that record the one-character options fire the option-length
\* check: confidence 0.9 (6.3 / 7), needs_review true, the single issue
\* "One or more options are too short", no warnings.
C6_ExampleHasShortOptions ==
    (pc = "done" /\ op = "verify_quiz_question" /\ arg = ExampleOne) =>
        /\ res.status = "returned"
        /\ ConfIs(res.value.confidence, 90)
        /\ res.value.needs_review
        /\ res.value.issues = <<"One or more options are too short">>
        /\ res.value.warnings = <<>>

\* C6 witness: verify_quiz_question has returned for that record
C6_Witness ==
    /\ pc = "done"
    /\ op = "verify_quiz_question"
    /\ arg = ExampleOne
    /\ res.status = "returned"

\* C7: verify_rubric on a record without 'criteria' returns confidence 0.0,
\* needs_review true, the single issue "Missing criteria" and no warnings, with
\* no factor of any other check, whatever the other keys are.
C7_MissingCriteriaShortCircuits ==
    (pc = "done" /\ op = "verify_rubric" /\ "criteria" \notin DOMAIN arg) =>
        res = Returned(VerificationResult("rubric", arg, Conf(0),
                                          <<"Missing criteria">>, <<>>, TRUE))

\* C7 witness: verify_rubric has ended on a record that has total_points and a
\* title but no criteria
C7_Witness ==
    /\ pc = "done"
    /\ op = "verify_rubric"
    /\ DOMAIN arg = {"total_points", "title"}

\* the keys a structural evaluator requires
RequiredKeys(name) ==
    IF name = "verify_quiz_question" THEN {"question", "options", "correct_index"}
    ELSE IF name = "verify_faq_entry" THEN {"question", "answer"}
    ELSE {"criteria"}

\* the call that has just ended was a structural evaluation of a record that
\* lacks a required key
LacksRequiredKey ==
    /\ pc = "done"
    /\ op \in StructuralEvaluators
    /\ RequiredKeys(op) \ DOMAIN arg # {}

\* the record with each absent text or sequence key holding the empty value
WithEmptyDefaults(record, keys) ==
    [k \in DOMAIN record \cup keys |-> IF k \in DOMAIN record THEN record[k] ELSE <<>>]

\* two results agree on everything but the record they refer to
SameVerdict(r1, r2) ==
    /\ r1.content_type = r2.content_type
    /\ r1.confidence = r2.confidence
    /\ r1.issues = r2.issues
    /\ r1.warnings = r2.warnings
    /\ r1.needs_review = r2.needs_review

\* msg is one of the messages
Among(msgs, msg) == \E i \in DOMAIN msgs : msgs[i] = msg

\* C8 as stated: every structural evaluator short-circuits on a record lacking
\* a required key, to confidence 0.0 and exactly one issue.
C8_MissingKeyShortCircuits ==
    LacksRequiredKey =>
        /\ res.status = "returned"
        /\ ConfIs(res.value.confidence, 0)
        /\ Len(res.value.issues) = 1

\* C8, amended: only verify_rubric short-circuits (no 'criteria': confidence 0.0,
\* exactly one issue, no factor collected).  verify_quiz_question and
\* verify_faq_entry read an absent key as its default (empty text, empty
\* sequence, None) and run their checks on it: the verdict is that of the record
\* holding the empty value, at least four factors are collected, the confidence
\* is above 0.0 and the ordinary check reports the issue.
C8_OnlyRubricShortCircuits ==
    LacksRequiredKey =>
        /\ res.status = "returned"
        /\ op = "verify_rubric" =>
              /\ res.value.confidence = Conf(0)
              /\ Len(res.value.issues) = 1
        /\ op = "verify_quiz_question" =>
              /\ SameVerdict(res.value,
                     verify_quiz_question(WithEmptyDefaults(arg, {"question", "options"})).value)
              /\ res.value.confidence.den >= 4
              /\ ~ConfLe(res.value.confidence, 0)
              /\ "question" \notin DOMAIN arg =>
                     Among(res.value.issues, "Question text too short (< 10 characters)")
              /\ "options" \notin DOMAIN arg =>
                     Among(res.value.issues, "Expected 4 options, got 0")
              /\ "correct_index" \notin DOMAIN arg =>
                     Among(res.value.issues, "Invalid correct_index: None")
        /\ op = "verify_faq_entry" =>
              /\ SameVerdict(res.value,
                     verify_faq_entry(WithEmptyDefaults(arg, {"question", "answer"})).value)
              /\ res.value.confidence.den = 4
              /\ ~ConfLe(res.value.confidence, 0)
              /\ "question" \notin DOMAIN arg =>
                     Among(res.value.issues, "Question too short")
              /\ "answer" \notin DOMAIN arg =>
                     Among(res.value.issues, "Answer too short")

\* C8 witness: verify_quiz_question has returned, with a confidence above 0.0,
\* for a record that has options and a correct_index but no question
C8_Witness ==
    /\ pc = "done"
    /\ op = "verify_quiz_question"
    /\ DOMAIN arg = {"options", "correct_index"}
    /\ res.status = "returned"
    /\ ~ConfLe(res.value.confidence, 0)

ItemEvaluator(name, item) ==
    IF name = "verify_quiz_batch" THEN verify_quiz_question(item) ELSE verify_faq_entry(item)

\* C10: a batch of N records returns exactly N results in the order of the
\* records: result i refers to record i and is what the single-item evaluator
\* returns for it, whatever the defects of the records.
C10_BatchPreservesOrder ==
    (pc = "done" /\ op \in BatchAggregators) =>
        /\ res.status = "returned"
        /\ Len(res.value.results) = Len(arg)
        /\ \A i \in DOMAIN arg :
               /\ res.value.results[i].content = arg[i]
               /\ Returned(res.value.results[i]) = ItemEvaluator(op, arg[i])

\* C10 witness: verify_quiz_batch has returned for two different records, the
\* first with issues and the second without
C10_Witness ==
    /\ pc = "done"
    /\ op = "verify_quiz_batch"
    /\ Len(arg) = 2
    /\ arg[1] # arg[2]
    /\ res.status = "returned"
    /\ res.value.results[1].issues # <<>>
    /\ res.value.results[2].issues = <<>>

RECURSIVE Product(_)
\* the product of the numbers xs
Product(xs) == IF xs = <<>> THEN 1 ELSE xs[1] * Product(Tail(xs))

\* N times the overall confidence o is the sum of the confidences of the results
IsMeanOf(o, results) ==
    LET dens == [i \in DOMAIN results |-> results[i].confidence.den]
        P == Product(dens)
        total == SumSeq([i \in DOMAIN results |->
                            results[i].confidence.num * (P \div dens[i])])
    IN  o.num * Len(results) * P = o.den * total

\* C11: the overall confidence of a batch is the unweighted arithmetic mean of
\* the confidences of the results it returns; an empty batch returns no result
\* and the overall confidence 0.0, without raising.
C11_OverallConfidenceIsMean ==
    (pc = "done" /\ op \in BatchAggregators) =>
        /\ res.status = "returned"
        /\ arg # <<>> => IsMeanOf(res.value.overall_confidence, res.value.results)
        /\ arg = <<>> =>
               /\ res.value.results = <<>>
               /\ res.value.overall_confidence = Conf(0)

\* C11 witness: verify_quiz_batch has returned two results of different
\* confidences
C11_Witness ==
    /\ pc = "done"
    /\ op = "verify_quiz_batch"
    /\ res.status = "returned"
    /\ Len(res.value.results) = 2
    /\ res.value.results[1].confidence # res.value.results[2].confidence

FencedObjects(text) ==
    LET s == Strip(text)
    IN  IF Len(s) >= 3 /\ s[1] = Fence /\ s[Len(s)] = Fence
        THEN LET inner == SubSeq(s, 2, Len(s) - 1)
                 body == Strip(IF inner[1].t = "word" THEN Tail(inner) ELSE inner)
             IN  IF Len(body) = 1 /\ body[1].t = "json" /\ body[1].v.kind = "object"
                 THEN {body[1].v}
                 ELSE {}
        ELSE {}

\* what verify_with_llm returns when the capability returns the text of v alone
Unwrapped(v) == InvokeAndParse("f1", [kind |-> "return", text |-> <<Doc(v)>>])

\* C13: a response that is a JSON object wrapped in code fences, with or without
\* a language tag, makes verify_with_llm return what the unwrapped object makes
\* it return.
C13_FencedParsesAsUnwrapped ==
    (pc = "done" /\ op = "verify_with_llm" /\ reply.kind = "return") =>
        \A v \in FencedObjects(reply.text) : res = Unwrapped(v)

\* the objects the text decodes to, once its whitespace and fences are stripped
DecodedObjects(r) ==
    IF r.kind = "return"
    THEN LET decoded == JsonLoads(JsonText(r.text))
         IN  IF decoded.status = "returned" /\ decoded.value.kind = "object"
             THEN {decoded.value}
             ELSE {}
    ELSE {}

\* C14: when the capability returns an object lacking some of the four fields,
\* verify_with_llm fills exactly the missing ones (confidence 0.5, empty lists)
\* and returns every field that is present unchanged.
C14_MissingFieldsDefaulted ==
    (pc = "done" /\ op = "verify_with_llm") =>
        \A v \in DecodedObjects(reply) :
            /\ res.status = "returned"
            /\ res.value.kind = "object"
            /\ DOMAIN res.value.fields = DOMAIN v.fields \cup PySet(ResultKeys)
            /\ \A key \in DOMAIN v.fields : res.value.fields[key] = v.fields[key]
            /\ "confidence" \notin DOMAIN v.fields =>
                   res.value.fields.confidence = JsonNumber(50)
            /\ \A key \in {"issues", "warnings", "suggestions"} \ DOMAIN v.fields :
                   res.value.fields[key] = <<>>

\* C14 witness: verify_with_llm has returned for an object that holds one issue
\* and nothing else
C14_Witness ==
    /\ pc = "done"
    /\ op = "verify_with_llm"
    /\ res.status = "returned"
    /\ \E v \in DecodedObjects(reply) :
           /\ DOMAIN v.fields = {"issues"}
           /\ v.fields.issues # <<>>

\* the objects with a numeric confidence that the capability returned
ReturnedWithConfidence(r) ==
    { v \in DecodedObjects(r) :
        "confidence" \in DOMAIN v.fields /\ v.fields.confidence.kind = "number" }

\* C15: an answer-correctness check that reaches the capability has needs_review
\* true whenever the confidence returned is below 0.80, with or without issues,
\* and needs_review false for a confidence of exactly 0.80 without issues.
C15_AnswerThreshold ==
    (pc = "done" /\ op = "verify_quiz_answer_correctness" /\ invocations = 1) =>
        \A v \in ReturnedWithConfidence(reply) :
            /\ res.status = "returned"
            /\ res.value.confidence = Conf(v.fields.confidence.n)
            /\ v.fields.confidence.n < 80 => res.value.needs_review
            /\ (v.fields.confidence.n = 80 /\ Get(v.fields, "issues", <<>>) = <<>>) =>
                   ~res.value.needs_review

\* C15 witness: the capability returned confidence 0.79 and an empty issues
\* list, and the check has returned with needs_review true
C15_Witness ==
    /\ pc = "done"
    /\ op = "verify_quiz_answer_correctness"
    /\ invocations = 1
    /\ res.status = "returned"
    /\ res.value.needs_review
    /\ \E v \in ReturnedWithConfidence(reply) :
           /\ v.fields.confidence.n = 79
           /\ "issues" \in DOMAIN v.fields
           /\ v.fields.issues = <<>>

\* the report written by the call that has just ended
ReportWritten == pc = "done" /\ op = "create_review_report"

\* the heading of an item's detailed block, a line of the quick summary, a
\* listed issue or warning
IsItemHeading(line) == Len(line) = 10 /\ line[5] = " - Confidence: "

IsQuickLine(line) == Len(line) = 5 /\ line[2] = ". " /\ line[4] = " - "

IsListed(line) == Len(line) = 2 /\ line[1] = "      {U+2022} "

\* the positions, in increasing order, of the lines that satisfy P
Positions(lines, P(_)) ==
    SelectSeq([i \in 1..Len(lines) |-> i], LAMBDA i : P(lines[i]))

\* the position of the one line equal to `line`
PositionOf(lines, line) == CHOOSE i \in DOMAIN lines : lines[i] = line

\* C16: the report of N results has exactly N detailed blocks and exactly N
\* quick-summary lines, the detailed blocks first, both in the order of the
\* results: the k-th of each carries the number k and the confidence and status
\* of result k; the header and the summary state N as the item count.
C16_ReportOneBlockPerItem ==
    ReportWritten =>
        LET lines == report_file.lines
            headings == Positions(lines, IsItemHeading)
            quick == Positions(lines, IsQuickLine)
            N == Len(arg)
            Status(v) == IF v.needs_review THEN "NEEDS REVIEW" ELSE "PASSED"
        IN  /\ res = Returned(ReportPath)
            /\ report_file.written
            /\ Len(headings) = N
            /\ Len(quick) = N
            /\ \A k \in 1..N :
                   /\ lines[headings[k]][2] = ToString(k)
                   /\ lines[headings[k]][6] = Percent(arg[k].confidence)
                   /\ lines[headings[k]][10] = Status(arg[k])
                   /\ lines[quick[k]][1] = ToString(k)
                   /\ lines[quick[k]][3] = Percent(arg[k].confidence)
                   /\ lines[quick[k]][5] \in
                          {"{U+26A0}{U+FE0F}  " \o Status(arg[k]), "{U+2705} " \o Status(arg[k])}
                   /\ headings[k] < PositionOf(lines, <<"QUICK SUMMARY">>)
                   /\ quick[k] > PositionOf(lines, <<"QUICK SUMMARY">>)
            /\ Len(Positions(lines, LAMBDA l : l = <<"Items Reviewed: ", ToString(N)>>)) = 1
            /\ \E i \in DOMAIN lines :
                   /\ Len(lines[i]) = 4
                   /\ lines[i][1] = "Items Needing Review: "
                   /\ lines[i][4] = ToString(N)

\* C16 witness: a report of two results has been written, the first of an item
\* that passed and the second of an item needing review
C16_Witness ==
    /\ ReportWritten
    /\ Len(arg) = 2
    /\ ~arg[1].needs_review
    /\ arg[2].needs_review

\* the lines of the detailed block of item k, its heading and empty lines left out
BlockBody(lines, k) ==
    LET headings == Positions(lines, IsItemHeading)
        first == headings[k] + 1
        last == IF k < Len(headings)
                THEN headings[k + 1] - 1
                ELSE PositionOf(lines, <<"QUICK SUMMARY">>) - 1
    IN  SelectSeq(SubSeq(lines, first, last), LAMBDA l : l # <<>>)

\* the messages under their label, as a block lists them
Labelled(label, msgs) ==
    IF msgs = <<>>
    THEN <<>>
    ELSE << <<label>> >> \o [i \in DOMAIN msgs |-> <<"      {U+2022} ", msgs[i]>>]

\* C17: the detailed block of an item holds the "passed" statement exactly when
\* the item has no issues, no warnings and needs_review false; the block of any
\* other item lists all its issues and then all its warnings, verbatim and in
\* their order, and nothing else.
C17_PassedStatementOnlyWhenClean ==
    ReportWritten =>
        \A k \in DOMAIN arg :
            LET body == BlockBody(report_file.lines, k)
                v == arg[k]
                clean == v.issues = <<>> /\ v.warnings = <<>> /\ ~v.needs_review
            IN  /\ (\E i \in DOMAIN body : body[i] = <<"   {U+2705} PASSED VERIFICATION:">>)
                       <=> clean
                /\ clean => \A i \in DOMAIN body : ~IsListed(body[i])
                /\ ~clean =>
                       body = Labelled("   {U+274C} CRITICAL ISSUES:", v.issues)
                              \o Labelled("   {U+26A0}{U+FE0F}  WARNINGS:", v.warnings)

\* C17 witness: a report has been written of an item without issues or warnings
\* that passed, followed by an item with a warning only that needs no review
C17_Witness ==
    /\ ReportWritten
    /\ Len(arg) = 2
    /\ arg[1].issues = <<>> /\ arg[1].warnings = <<>> /\ ~arg[1].needs_review
    /\ arg[2].issues = <<>> /\ arg[2].warnings # <<>> /\ ~arg[2].needs_review

\* two of the options are the same text
HasEqualOptions(options) ==
    \E i \in DOMAIN options : \E j \in DOMAIN options : i < j /\ options[i] = options[j]

\* C18: verify_quiz_question reports an option count other than 4 ("Expected 4
\* options, got N"), two equal options and a correct_index outside 0..3
\* ("Invalid correct_index: X") each on its own, whether or not the other
\* defects are present, and needs_review is true whenever one of them is.
C18_CountDuplicatesIndexIndependent ==
    (pc = "done" /\ op = "verify_quiz_question") =>
        LET options == Get(arg, "options", <<>>)
            badCount == Len(options) # 4
            badIndex == "correct_index" \in DOMAIN arg /\ arg.correct_index \notin {0, 1, 2, 3}
        IN  /\ res.status = "returned"
            /\ badCount <=>
                   Among(res.value.issues, "Expected 4 options, got " \o ToString(Len(options)))
            /\ HasEqualOptions(options) <=>
                   Among(res.value.issues, "Duplicate options detected")
            /\ badIndex =>
                   Among(res.value.issues,
                         "Invalid correct_index: " \o ToString(arg.correct_index))
            /\ (badCount \/ HasEqualOptions(options) \/ badIndex) => res.value.needs_review

\* C18 witness: verify_quiz_question has returned for "Q?" with the options
\* "A", "A", "C" and correct_index 5, which has the three defects
C18_Witness ==
    /\ pc = "done"
    /\ op = "verify_quiz_question"
    /\ arg = [question |-> <<"Q", "?">>,
              options |-> << <<"A">>, <<"A">>, <<"C">> >>,
              correct_index |-> 5]
    /\ res.status = "returned"

\* the placeholder terms, in lower case
PlaceholderWords ==
    { <<"t", "o", "d", "o">>, <<"t", "b", "d">>, <<"f", "i", "x", "m", "e">>,
      <<"[", "i", "n", "s", "e", "r", "t">>,
      <<"c", "o", "m", "i", "n", "g", " ", "s", "o", "o", "n">> }

\* c is the lower-case character l, or its capital
IsLetterOf(c, l) ==
    c = l \/ \E i \in DOMAIN LowerChars : LowerChars[i] = l /\ UpperChars[i] = c

\* the word occurs in the text at some position, each letter in either case
OccursInAnyCase(text, word) ==
    \E k \in 0..(Len(text) - Len(word)) :
        \A j \in DOMAIN word : IsLetterOf(text[k + j], word[j])

\* C19: verify_faq_entry reports the placeholder issue, and sets needs_review,
\* for every answer that holds a placeholder term in any letter case at any
\* position, whatever the length of the answer, the question and the category.
C19_PlaceholderAnyCaseAnyLength ==
    (pc = "done" /\ op = "verify_faq_entry" /\ "answer" \in DOMAIN arg
        /\ \E word \in PlaceholderWords : OccursInAnyCase(arg.answer, word)) =>
        /\ res.status = "returned"
        /\ Among(res.value.issues, "Answer contains placeholder text")
        /\ res.value.needs_review

\* C19 witness: verify_faq_entry has reported the placeholder issue for an
\* answer of more than 1000 characters that ends in "FixMe"
C19_Witness ==
    /\ pc = "done"
    /\ op = "verify_faq_entry"
    /\ "answer" \in DOMAIN arg
    /\ Len(arg.answer) > 1000
    /\ OccursInAnyCase(arg.answer, <<"f", "i", "x", "m", "e">>)
    /\ res.status = "returned"
    /\ Among(res.value.issues, "Answer contains placeholder text")

\* the sum of the points of the criteria, a criterion without points counting 0
PointsOf(criteria) ==
    SumSeq([i \in DOMAIN criteria |->
               IF "points" \in DOMAIN criteria[i] THEN criteria[i].points ELSE 0])

\* C20: on a rubric that has 'criteria', verify_rubric reports the point-mismatch
\* issue and collects the factor 0.5 for the point check exactly when the points
\* of the criteria do not sum to total_points (0 when the key is missing), and
\* needs_review is true then; when they are equal the check collects the factor
\* 1.0 and reports no issue.
C20_PointMismatch ==
    (pc = "done" /\ op = "verify_rubric" /\ "criteria" \in DOMAIN arg) =>
        LET sum == PointsOf(arg.criteria)
            total == IF "total_points" \in DOMAIN arg THEN arg.total_points ELSE 0
            mismatch == "Point mismatch: criteria sum to " \o ToString(sum)
                        \o " but total_points is " \o ToString(total)
            factor == RubricFindings(arg).confidence_factors[2]
        IN  /\ res.status = "returned"
            /\ sum # total =>
                   /\ Among(res.value.issues, mismatch)
                   /\ factor = 50
                   /\ res.value.needs_review
            /\ sum = total =>
                   /\ ~Among(res.value.issues, mismatch)
                   /\ factor = 100

\* C20 witness: verify_rubric has returned for a rubric whose two criteria sum
\* to 15 points while total_points is 20
C20_Witness ==
    /\ pc = "done"
    /\ op = "verify_rubric"
    /\ "criteria" \in DOMAIN arg
    /\ PointsOf(arg.criteria) = 15
    /\ "total_points" \in DOMAIN arg
    /\ arg.total_points = 20
    /\ res.status = "returned"
    /\ res.value.needs_review

\* ---------------------------------------------------------------------------
\* Factors collected by verify_quiz_question
\* ---------------------------------------------------------------------------

\* the factors verify_quiz_question has collected for the record of the call
QuizFactors == QuizFindings(arg).confidence_factors

\* the options of the quiz record of the call ([] when the key is missing)
QuizOptions == Get(arg, "options", <<>>)

\* the number of checks that run on a list of options: the option length and
\* the duplicate checks need a non-empty list, the outlier check needs exactly
\* four options
ChecksRun(options) ==
    IF options = <<>> THEN 4
    ELSE IF Len(options) = 4 THEN 7 ELSE 6

\* C21 (as stated): for every quiz record, with zero options or an option
\* count other than 4 too, verify_quiz_question collects exactly seven factors
\* and the confidence is their sum divided by 7.
C21_AlwaysSevenFactors ==
    HasReturned({"verify_quiz_question"}) =>
        /\ Len(QuizFactors) = 7
        /\ res.value.confidence = [num |-> SumSeq(QuizFactors), den |-> 7]

\* C21 (amended): every check that runs contributes exactly one factor, and the
\* confidence is the sum of the collected factors divided by their number,
\* which is 7 for a record with exactly four options, 6 for a record with a
\* non-empty list of another length (the outlier check is skipped) and 4 for a
\* record without options (the option length, duplicate and outlier checks are
\* skipped).
C21_FactorPerCheckThatRuns ==
    HasReturned({"verify_quiz_question"}) =>
        /\ Len(QuizFactors) = ChecksRun(QuizOptions)
        /\ res.value.confidence =
               [num |-> SumSeq(QuizFactors), den |-> ChecksRun(QuizOptions)]

\* C21 witness: verify_quiz_question has returned for a record with an empty
\* list of options, with a confidence that is a mean of four factors
C21_Witness ==
    /\ HasReturned({"verify_quiz_question"})
    /\ "options" \in DOMAIN arg
    /\ arg.options = <<>>
    /\ res.value.confidence.den = 4

\* ---------------------------------------------------------------------------
\* Factors collected by verify_rubric
\* ---------------------------------------------------------------------------

\* C22 (as stated): verify_rubric collects, besides the two factors of the
\* count and point-sum checks, three factors for every criterion (name,
\* description, points; 1.0 for a check that passes), so the confidence of a
\* rubric with n criteria is the mean of exactly 2 + 3n factors.
C22_ThreeFactorsPerCriterion ==
    (HasReturned({"verify_rubric"}) /\ "criteria" \in DOMAIN arg) =>
        LET factors == RubricFindings(arg).confidence_factors
            n == Len(arg.criteria)
        IN  /\ Len(factors) = 2 + 3 * n
            /\ res.value.confidence = [num |-> SumSeq(factors), den |-> 2 + 3 * n]

\* ---------------------------------------------------------------------------
\* The outlier-length heuristic
\* ---------------------------------------------------------------------------

\* the mean of the lengths, as a fraction
MeanLength(options) == [num |-> SumSeq(Lengths(options)), den |-> Len(options)]

\* some option is longer than twice the mean length of the options
SomeOptionOverTwiceMean(options) ==
    /\ options # <<>>
    /\ \E i \in DOMAIN options :
           Len(options[i]) * MeanLength(options).den > 2 * MeanLength(options).num

GiveawayWarning == "One option much longer than others (may be obviously correct)"

\* C23 (as stated): whenever some option of a quiz record is longer than twice
\* the mean option length, the result of verify_quiz_question carries the
\* giveaway warning and a 0.85 factor, whatever the number of options.
C23_OutlierFlaggedForAnyCount ==
    (HasReturned({"verify_quiz_question"}) /\ SomeOptionOverTwiceMean(QuizOptions)) =>
        /\ Among(res.value.warnings, GiveawayWarning)
        /\ Among(QuizFactors, 85)

\* C23 (amended): the outlier-length heuristic runs only on a record with
\* exactly four options: the result carries the giveaway warning, with 0.85 as
\* the last factor, exactly when the record has four options and one of them
\* is longer than twice their mean length; a record with another number of
\* options never carries the warning.
C23_OutlierFlaggedForFourOptions ==
    HasReturned({"verify_quiz_question"}) =>
        /\ Among(res.value.warnings, GiveawayWarning)
               <=> (Len(QuizOptions) = 4 /\ SomeOptionOverTwiceMean(QuizOptions))
        /\ Among(res.value.warnings, GiveawayWarning)
               => QuizFactors[Len(QuizFactors)] = 85
        /\ Len(QuizOptions) = 4 /\ ~SomeOptionOverTwiceMean(QuizOptions)
               => QuizFactors[Len(QuizFactors)] = 100

\* C23 witness: verify_quiz_question has returned, without the giveaway
\* warning, for a record of three options one of which is longer than twice
\* their mean length
C23_Witness ==
    /\ HasReturned({"verify_quiz_question"})
    /\ Len(QuizOptions) = 3
    /\ SomeOptionOverTwiceMean(QuizOptions)
    /\ ~Among(res.value.warnings, GiveawayWarning)

\* C23 witness of the flagged case: four options, one longer than twice the mean
C23_FlaggedWitness ==
    /\ HasReturned({"verify_quiz_question"})
    /\ Len(QuizOptions) = 4
    /\ SomeOptionOverTwiceMean(QuizOptions)
    /\ Among(res.value.warnings, GiveawayWarning)

\* ---------------------------------------------------------------------------
\* No retry
\* ---------------------------------------------------------------------------

\* C24: one call of verify_with_llm or of verify_quiz_answer_correctness
\* invokes the registered capability at most once: the count of invocations of
\* the call never passes 1, the step that invokes the capability ends the
\* call, a call that has ended invokes nothing more, and a call that ends after
\* a raise or an undecodable response ends with the fallback result.
C24_NeverRetries ==
    [][ /\ invocations' <= 1
        /\ invocations' # invocations /\ pc' # "idle" =>
               /\ pc = "invoke"
               /\ pc' = "done"
               /\ invocations' = invocations + 1
        /\ (pc = "invoke" /\ pc' = "done" /\ path' = "failed") =>
               /\ op' \in SemanticVerifiers
               /\ res' = Finish(op, arg, FailedResult)
      ]_vars

\* C24 witness: verify_quiz_answer_correctness has ended on the fallback after
\* one invocation whose response was not JSON
C24_Witness ==
    /\ pc = "done"
    /\ op = "verify_quiz_answer_correctness"
    /\ path = "failed"
    /\ reply = [kind |-> "return", text |-> << Word("I cannot help with that") >>]
    /\ invocations = 1

\* C24 witness of the raising case: verify_with_llm has ended on the fallback
\* after one invocation that raised
C24_RaiseWitness ==
    /\ pc = "done"
    /\ op = "verify_with_llm"
    /\ path = "failed"
    /\ reply = [kind |-> "raise"]
    /\ invocations = 1
    /\ res = Returned(FailedResult)

\* ---------------------------------------------------------------------------
\* Structural evaluation has no side effect
\* ---------------------------------------------------------------------------

\* the outcome of the structural function `name` on `input`
StructuralOutcome(name, input) ==
    CASE name = "verify_quiz_question" -> verify_quiz_question(input)
      [] name = "verify_faq_entry" -> verify_faq_entry(input)
      [] name = "verify_rubric" -> verify_rubric(input)
      [] name = "verify_quiz_batch" -> verify_quiz_batch(input)

\* C25: a call of verify_quiz_question, verify_faq_entry, verify_rubric or
\* verify_quiz_batch changes nothing but its own outcome: the registered
\* capability, the report file and every other piece of module state are as
\* before, the capability is not invoked (the call ends in one step, with no
\* invocation counted and no reply read), and the record(s) the caller holds
\* after the call are the ones the outcome was computed from.
C25_StructuralCallsHaveNoSideEffect ==
    [][ (pc = "idle" /\ op' \in StructuralEvaluators \cup {"verify_quiz_batch"}) =>
            /\ llm_function' = llm_function
            /\ report_file' = report_file
            /\ kept' = kept
            /\ llm_checked' = llm_checked
            /\ path' = path
            /\ pc' = "done"
            /\ invocations' = 0
            /\ reply' = NoReply
            /\ res' = StructuralOutcome(op', arg')
            /\ (op' \in StructuralEvaluators /\ res'.status = "returned") =>
                   res'.value.content = arg'
      ]_vars

\* C25 witness: verify_quiz_batch has returned for two records while a
\* capability is registered, and the capability has not been invoked
C25_Witness ==
    /\ HasReturned({"verify_quiz_batch"})
    /\ Len(arg) = 2
    /\ llm_function = "f1"
    /\ invocations = 0
    /\ reply = NoReply

\* ---------------------------------------------------------------------------
\* Issues, warnings, confidence and the review flag of structural results
\* ---------------------------------------------------------------------------

\* the results of the structural evaluators held by the outcome of the call
\* that has just ended, alone or in a batch
StructuralResults ==
    IF HasReturned(StructuralEvaluators)
    THEN {res.value}
    ELSE IF HasReturned(BatchAggregators)
         THEN PySet(res.value.results)
         ELSE {}

\* C26: for every quiz, FAQ or rubric record the structural result has
\* needs_review true if and only if its issues list is non-empty; a result
\* that has no issue has a confidence at or above the threshold of its content
\* type (0.75 for quiz and FAQ, 0.80 for rubric), whatever its warnings.
C26_NeedsReviewIffIssues ==
    \A r \in StructuralResults :
        /\ r.needs_review <=> (r.issues # <<>>)
        /\ r.issues = <<>> => ConfGe(r.confidence, ThresholdOf(r.content_type))

\* C26 witness: verify_rubric has returned a result with three warnings, no
\* issue and a confidence of 0.875, which is not flagged for review
C26_Witness ==
    /\ HasReturned({"verify_rubric"})
    /\ Len(res.value.warnings) = 3
    /\ res.value.issues = <<>>
    /\ res.value.confidence = [num |-> 350, den |-> 4]
    /\ ~res.value.needs_review

\* C27: for every result of a structural evaluator the confidence is 1.0 if
\* and only if the result has neither an issue nor a warning.
C27_FullConfidenceIffClean ==
    \A r \in StructuralResults :
        ConfIs(r.confidence, 100) <=> (r.issues = <<>> /\ r.warnings = <<>>)

\* C27 witness: verify_faq_entry has returned a result whose only finding is
\* one warning, with a confidence below 1.0
C27_Witness ==
    /\ HasReturned({"verify_faq_entry"})
    /\ res.value.issues = <<>>
    /\ Len(res.value.warnings) = 1
    /\ ConfLt(res.value.confidence, 100)

\* C27 witness of the clean case: a structural result with confidence 1.0
C27_CleanWitness ==
    /\ HasReturned({"verify_quiz_question"})
    /\ res.value.issues = <<>>
    /\ res.value.warnings = <<>>
    /\ ConfIs(res.value.confidence, 100)

\* ---------------------------------------------------------------------------
\* The report's labels against its listed issues
\* ---------------------------------------------------------------------------

\* C28: for every list of results of the engine's evaluators, the report never
\* labels an item PASSED, in the header of its block or in its quick-summary
\* line, while the block lists CRITICAL ISSUES for the item.
C28_NoPassedLabelWithCriticalIssues ==
    ReportWritten =>
        LET lines == report_file.lines
            headings == Positions(lines, IsItemHeading)
            quick == Positions(lines, IsQuickLine)
        IN  \A k \in DOMAIN arg :
                LET body == BlockBody(lines, k)
                    listsIssues ==
                        \E i \in DOMAIN body : body[i] = <<"   {U+274C} CRITICAL ISSUES:">>
                IN  /\ lines[headings[k]][10] = "PASSED" => ~listsIssues
                    /\ lines[quick[k]][5] = "{U+2705} PASSED" => ~listsIssues

\* ---------------------------------------------------------------------------
\* The answer check on an index past the options
\* ---------------------------------------------------------------------------

\* C29: verify_quiz_answer_correctness on a record whose correct_index (0 when
\* the key is missing) is greater than or equal to the number of its options
\* (none when the key is missing) returns confidence 0.0, the single issue
\* "Invalid correct_index", no warnings and needs_review true, and does so
\* without reaching the availability check or invoking the capability, whether
\* or not one is registered.
C29_IndexPastOptionsIsInvalid ==
    (/\ pc \in {"invoke", "done"}
     /\ op = "verify_quiz_answer_correctness"
     /\ Get(arg, "correct_index", 0) >= Len(Get(arg, "options", <<>>))) =>
        /\ pc = "done"
        /\ res.status = "returned"
        /\ res.value.content_type = "quiz_answer_verification"
        /\ res.value.content = arg
        /\ res.value.confidence = Conf(0)
        /\ res.value.issues = <<"Invalid correct_index">>
        /\ res.value.warnings = <<>>
        /\ res.value.needs_review
        /\ invocations = 0
        /\ reply = NoReply
        /\ path = ""

\* C29 witness: with a capability registered, verify_quiz_answer_correctness
\* has returned the invalid-index result for a record of four options whose
\* correct_index is 7, and nothing was invoked
C29_Witness ==
    /\ pc = "done"
    /\ op = "verify_quiz_answer_correctness"
    /\ llm_function = "f1"
    /\ "options" \in DOMAIN arg
    /\ Len(arg.options) = 4
    /\ "correct_index" \in DOMAIN arg
    /\ arg.correct_index = 7
    /\ res.status = "returned"
    /\ res.value.issues = <<"Invalid correct_index">>
    /\ invocations = 0

\* C29 witness of the unregistered case: the same result when _llm_function is
\* None, for an index equal to the number of options
C29_UnregisteredWitness ==
    /\ pc = "done"
    /\ op = "verify_quiz_answer_correctness"
    /\ llm_function = "None"
    /\ "options" \in DOMAIN arg
    /\ "correct_index" \in DOMAIN arg
    /\ arg.correct_index = Len(arg.options)
    /\ arg.options # <<>>
    /\ res.status = "returned"
    /\ res.value.issues = <<"Invalid correct_index">>
    /\ res.value.warnings = <<>>

\* ---------------------------------------------------------------------------
\* set_llm_function interleaved with a running verify_with_llm
\* ---------------------------------------------------------------------------

\* C30: under every interleaving of set_llm_function (another capability, or
\* None) with a running verify_with_llm, a change between the availability
\* check and the invocation included, verify_with_llm does not raise and
\* returns a record that holds all four fields confidence, issues, warnings and
\* suggestions.
C30_FourFieldRecordUnderInterleaving ==
    (pc = "done" /\ op = "verify_with_llm") =>
        /\ res.status = "returned"
        /\ res.value.kind = "object"
        /\ PySet(ResultKeys) \subseteq DOMAIN res.value.fields

\* the part of C30 that holds: verify_with_llm never raises, and when the
\* capability was unregistered between the availability check and the
\* invocation it returns the failure fallback without an invocation
C30_InterleavingNeverRaises ==
    (pc = "done" /\ op = "verify_with_llm") =>
        /\ res.status = "returned"
        /\ (path = "failed" /\ invocations = 0) => res = Returned(FailedResult)

\* a running verify_with_llm whose capability was set to None after the
\* availability check has returned the failure fallback
C30_UnregisteredMidCall ==
    /\ pc = "done"
    /\ op = "verify_with_llm"
    /\ llm_checked = "f1"
    /\ llm_function = "None"
    /\ invocations = 0
    /\ res = Returned(FailedResult)

=============================================================================
